---- MODULE Spec2Model ----
(***************************************************************************)
(* A model of the TradeStation API wrapper classes Accounts, Orders,       *)
(* Symbols and MarketData.  Every public method builds a URL, reads the    *)
(* instance's token into an Authorization header, hands one request to     *)
(* axios and chains (or does not chain) a fulfilment and a rejection       *)
(* handler on the promise axios returns.                                    *)
(*                                                                         *)
(* JavaScript values are modelled as records [t, s, f]: the type tag, the  *)
(* text String(v) yields, and the own properties of an object.             *)
(*                                                                         *)
(* A URL is the sequence of the pieces its template literal puts together. *)
(* One call is in progress at a time: the calls share no state but the     *)
(* token of their instance, which the owner may replace at any moment.     *)
(* The comment opener at accounts.jsx:125 has lost its slash; the model    *)
(* reads the block as the comment it was meant to be.                      *)
(***************************************************************************)
EXTENDS Integers, Sequences, FiniteSets, TLC

VARIABLES token, call

vars == <<token, call>>

----------------------------------------------------------------------------
(* Bounds of the model *)

\* number of distinct bearer tokens an instance may be given over time
NumTokens == 2

\* number of records a stream delivers at most
MaxRecords == 2

Tokens == {"tok" \o ToString(n) : n \in 1..NumTokens}

----------------------------------------------------------------------------
(* JavaScript values *)

NoFields == [k \in {} |-> k]

undefined == [t |-> "undefined", s |-> "undefined", f |-> NoFields]

null == [t |-> "null", s |-> "null", f |-> NoFields]

Str(x) == [t |-> "string", s |-> x, f |-> NoFields]

\* a number, given by its decimal rendering
Num(x) == [t |-> "number", s |-> x, f |-> NoFields]

Bool(x) == [t |-> "boolean", s |-> x, f |-> NoFields]

Obj(fields) == [t |-> "object", s |-> "[object Object]", f |-> fields]

\* v.k : property access; a missing property reads as undefined
Get(v, k) == IF k \in DOMAIN v.f THEN v.f[k] ELSE undefined

\* ${v} inside a template literal
Interpolate(v) == v.s

\* the condition of  v ? a : b
Truthy(v) ==
  ~ \/ v.t \in {"undefined", "null"}
    \/ v.t = "number" /\ v.s \in {"0", "NaN"}
    \/ v.t = "string" /\ v.s = ""
    \/ v.t = "boolean" /\ v.s = "false"

\* a default parameter value  (p = d)  applies when the argument is undefined
\* a parameter whose default is never applied
DefaultIgnored(v, d) == v

Default(v, d) == IF v.t = "undefined" THEN d ELSE v

\* the i-th positional argument of a call; an argument not passed is undefined
Arg(args, i) == IF i <= Len(args) THEN args[i] ELSE undefined

\* new Date().toISOString()  at the moment of the call
Now == Str("<now>")

----------------------------------------------------------------------------
(* The classes and their instances *)

Classes == {"Accounts", "Orders", "Symbols", "MarketData"}

baseUrl ==
  [c \in Classes |->
     CASE c = "Accounts"   -> "https://api.tradestation.com/v3/brokerage"
       [] c = "Orders"     -> "https://api.tradestation.com/v3/orderexecution"
       [] c = "Symbols"    -> "https://api.tradestation.com/v2/data/symbols"
       [] c = "MarketData" -> "https://api.tradestation.com/v3/marketdata"]

\* the instance of class c as a method sees it
This(c) == [baseUrl |-> baseUrl[c], token |-> token[c]]

\* Bearer with the scheme forgotten: `${this.token}`
BearerWithoutScheme(tok) == tok

\* `Bearer ${this.token}`
Bearer(tok) == "Bearer " \o tok

StreamsAccept == "application/vnd.tradestation.streams.v2+json"

----------------------------------------------------------------------------
(* The calls into axios *)

\* a property of a params object literal
P(k, v) == [k |-> k, v |-> v]

AuthOnly(this) == "Authorization" :> Bearer(this.token)

AuthStream(this) ==
  "Authorization" :> Bearer(this.token) @@ "Accept" :> StreamsAccept

AuthJson(this) ==
  "Authorization" :> Bearer(this.token) @@ "Content-Type" :> "application/json"

\* axios.get(url, {headers, params, responseType})
AxiosGet(url, headers, params, responseType) ==
  [verb |-> "GET", url |-> url, headers |-> headers, params |-> params,
   responseType |-> responseType, data |-> undefined]

\* a post that puts the data inside an envelope: axios.post(url, {order: data}, ...)
AxiosPostWraps(url, data, headers) ==
  [verb |-> "POST", url |-> url, headers |-> headers, params |-> <<>>,
   responseType |-> undefined, data |-> Obj([order |-> data])]

\* axios.post(url, data, {headers})
AxiosPost(url, data, headers) ==
  [verb |-> "POST", url |-> url, headers |-> headers, params |-> <<>>,
   responseType |-> undefined, data |-> data]

\* axios.put(url, data, {headers})
AxiosPut(url, data, headers) ==
  [verb |-> "PUT", url |-> url, headers |-> headers, params |-> <<>>,
   responseType |-> undefined, data |-> data]

(* The handlers a method chains on the promise of axios. *)

\* .then(response => response.data.<field>)
ThenField(field) == [kind |-> "field", arg |-> field]

\* .then(response => response.data)
ThenData == [kind |-> "data", arg |-> ""]

\* no fulfilment handler: the promise of axios is returned as it is
ThenNone == [kind |-> "none", arg |-> ""]

\* .catch(error => { console.error(label, error); throw error; })
CatchLogRethrow(label) == [kind |-> "logRethrow", arg |-> label]

\* catch (error) { throw new Error(`<prefix>${error.message}`) }
CatchWrap(prefix) == [kind |-> "wrap", arg |-> prefix]

CatchNone == [kind |-> "none", arg |-> ""]

Method(request, onFulfilled, onRejected) ==
  [request |-> request, onFulfilled |-> onFulfilled, onRejected |-> onRejected]

\* .then(response => { response.data.on('data', ...) }): a listener that
\* prints every chunk is attached and the handler returns nothing
ThenListen == [kind |-> "listen", arg |-> ""]

\* return { SpreadType: response.data.SpreadType, Strikes: response.data.Strikes }
ThenStrikes == [kind |-> "strikes", arg |-> ""]

----------------------------------------------------------------------------
(* class Accounts *)

getAccounts(this) ==
  LET url == <<this.baseUrl, "/accounts">>
  IN Method(AxiosGet(url, AuthOnly(this), <<>>, undefined),
            ThenField("Accounts"),
            CatchLogRethrow("Error fetching accounts:"))

getAccountBalances(this, accountIds) ==
  LET url == <<this.baseUrl, "/accounts/", Interpolate(accountIds), "/balances">>
  IN Method(AxiosGet(url, AuthOnly(this), <<>>, undefined),
            ThenField("Balances"),
            CatchLogRethrow("Error fetching account balances:"))

getBalancesBOD(this, accountIds) ==
  LET url == <<this.baseUrl, "/accounts/", Interpolate(accountIds), "/bodbalances">>
  IN Method(AxiosGet(url, AuthOnly(this), <<>>, undefined),
            ThenField("BODBalances"),
            CatchLogRethrow("Error fetching Beginning of Day Balances:"))

getHistoricalOrders(this, accounts, since, pageSize0, nextToken0) ==
  LET pageSize == Default(pageSize0, Num("600"))
      nextToken == Default(nextToken0, null)
      url == <<this.baseUrl, "/accounts/", Interpolate(accounts), "/historicalorders">>
      params == <<P("since", since), P("pageSize", pageSize), P("nextToken", nextToken)>>
  IN Method(AxiosGet(url, AuthOnly(this), params, undefined),
            ThenData,
            CatchLogRethrow("Error fetching historical orders:"))

getHistoricalOrdersByOrderID(this, accounts, orderIds, since) ==
  LET url == <<this.baseUrl, "/accounts/", Interpolate(accounts),
               "/historicalorders/", Interpolate(orderIds),
               "?", "since", "=", Interpolate(since)>>
  IN Method(AxiosGet(url, AuthOnly(this), <<>>, undefined),
            ThenData,
            CatchLogRethrow("Error fetching historical orders:"))

getOrders(this, accounts, pageSize0, nextToken) ==
  LET pageSize == Default(pageSize0, Num("600"))
      url == <<this.baseUrl, "/accounts/", Interpolate(accounts), "/orders">>
      params == <<P("pageSize", pageSize), P("nextToken", nextToken)>>
  IN Method(AxiosGet(url, AuthOnly(this), params, undefined),
            ThenField("Orders"),
            CatchLogRethrow("Error fetching orders:"))

getOrdersByOrderID(this, accountIds, orderIds) ==
  LET url == <<this.baseUrl, "/accounts/", Interpolate(accountIds),
               "/orders/", Interpolate(orderIds)>>
  IN Method(AxiosGet(url, AuthOnly(this), <<>>, undefined),
            ThenField("Orders"),
            CatchLogRethrow("Error fetching orders:"))

\* getPositions with the symbol filter forgotten: params is always {}
getPositionsDropsSymbol(this, accounts, symbol) ==
  LET url == <<this.baseUrl, "/accounts/", Interpolate(accounts), "/positions">>
  IN Method(AxiosGet(url, AuthOnly(this), <<>>, undefined),
            ThenField("Positions"),
            CatchLogRethrow("Error fetching positions:"))

getPositions(this, accounts, symbol) ==
  LET url == <<this.baseUrl, "/accounts/", Interpolate(accounts), "/positions">>
      params == IF Truthy(symbol) THEN <<P("symbol", symbol)>> ELSE <<>>
  IN Method(AxiosGet(url, AuthOnly(this), params, undefined),
            ThenField("Positions"),
            CatchLogRethrow("Error fetching positions:"))

getWallets(this, accountID) ==
  LET url == <<this.baseUrl, "/accounts/", Interpolate(accountID), "/wallets">>
  IN Method(AxiosGet(url, AuthOnly(this), <<>>, undefined),
            ThenField("Wallets"),
            CatchLogRethrow("Error fetching wallets:"))

streamWallets(this, account) ==
  LET url == <<this.baseUrl, "/stream/", "accounts/", Interpolate(account), "/wallets">>
  IN Method(AxiosGet(url, AuthStream(this), <<>>, Str("stream")),
            ThenData,
            CatchLogRethrow("Error streaming wallets:"))

streamOrders(this, accountIds) ==
  LET url == <<this.baseUrl, "/stream/", "accounts/", Interpolate(accountIds), "/orders">>
  IN Method(AxiosGet(url, AuthOnly(this), <<>>, Str("stream")),
            ThenListen,
            CatchLogRethrow("Error streaming orders:"))

streamOrdersByOrderId(this, accountIds, ordersIds) ==
  LET url == <<this.baseUrl, "/stream/", "accounts/", Interpolate(accountIds),
               "/orders/", Interpolate(ordersIds)>>
  IN Method(AxiosGet(url, AuthOnly(this), <<>>, undefined),
            ThenField("Orders"),
            CatchLogRethrow("Error streaming orders by order ID:"))

streamPositions(this, accountIds, changes0) ==
  LET changes == Default(changes0, Bool("false"))
      url == <<this.baseUrl, "/stream/", "accounts/", Interpolate(accountIds), "/positions">>
      params == <<P("changes", changes)>>
  IN Method(AxiosGet(url, AuthOnly(this), params, undefined),
            ThenData,
            CatchLogRethrow("Error streaming positions:"))

----------------------------------------------------------------------------
(* class Orders *)

confirmOrder(this, order) ==
  LET url == <<this.baseUrl, "/orderconfirm">>
  IN Method(AxiosPost(url, order, AuthJson(this)),
            ThenField("Confirmations"),
            CatchLogRethrow("Error confirming order:"))

confirmGroupOrder(this, groupOrder) ==
  LET url == <<this.baseUrl, "/ordergroupconfirm">>
  IN Method(AxiosPost(url, groupOrder, AuthJson(this)),
            ThenField("OrderConfirmResponses"),
            CatchLogRethrow("Error confirming group order:"))

placeGroupOrder(this, groupOrder) ==
  LET url == <<this.baseUrl, "/ordergroups">>
  IN Method(AxiosPost(url, groupOrder, AuthJson(this)),
            ThenField("Orders"),
            CatchLogRethrow("Error placing group order:"))

placeOrder(this, order) ==
  LET url == <<this.baseUrl, "/orders">>
  IN Method(AxiosPost(url, order, AuthJson(this)),
            ThenField("Orders"),
            CatchLogRethrow("Error placing order:"))

replaceOrder(this, orderID, replacementOrder) ==
  LET url == <<this.baseUrl, "/orders/", Interpolate(orderID)>>
  IN Method(AxiosPut(url, replacementOrder, AuthJson(this)),
            ThenData,
            CatchLogRethrow("Error replacing order:"))

getActivationTriggers(this) ==
  LET url == <<this.baseUrl, "/activationtriggers">>
  IN Method(AxiosGet(url, AuthOnly(this), <<>>, undefined),
            ThenField("ActivationTriggers"),
            CatchLogRethrow("Error getting activation triggers:"))

getRoutes(this) ==
  LET url == <<this.baseUrl, "/routes">>
  IN Method(AxiosGet(url, AuthOnly(this), <<>>, undefined),
            ThenField("Routes"),
            CatchLogRethrow("Error getting routes:"))

----------------------------------------------------------------------------
(* class Symbols *)

suggestSymbols(this, text, top, filter) ==
  LET url == <<this.baseUrl, "/suggest/", Interpolate(text)>>
      params == <<P("$top", top), P("$filter", filter)>>
  IN Method(AxiosGet(url, AuthOnly(this), params, undefined), ThenNone, CatchNone)

searchSymbols(this, criteria) ==
  LET url == <<this.baseUrl, "/search/", Interpolate(criteria)>>
  IN Method(AxiosGet(url, AuthOnly(this), <<>>, undefined), ThenNone, CatchNone)

----------------------------------------------------------------------------
(* class MarketData *)

\* getBars without the reassignment of lastdate
getBarsKeepsLastdate(this, symbol, interval0, unit0, barsback0, firstdate, lastdate0, sessiontemplate) ==
  LET interval == Default(interval0, Str("1"))
      unit == Default(unit0, Str("Daily"))
      barsback == Default(barsback0, Str("1"))
      url == <<this.baseUrl, "/barcharts/", Interpolate(symbol)>>
      params == <<P("interval", interval), P("unit", unit), P("barsback", barsback),
                  P("firstdate", firstdate), P("lastdate", lastdate0),
                  P("sessiontemplate", sessiontemplate)>>
  IN Method(AxiosGet(url, AuthOnly(this), params, undefined),
            ThenData,
            CatchWrap("Error fetching bars: "))

getBars(this, symbol, interval0, unit0, barsback0, firstdate, lastdate0, sessiontemplate) ==
  LET interval == Default(interval0, Str("1"))
      unit == Default(unit0, Str("Daily"))
      barsback == Default(barsback0, Str("1"))
      lastdate == IF lastdate0.t = "undefined" THEN Now ELSE lastdate0
      url == <<this.baseUrl, "/barcharts/", Interpolate(symbol)>>
      params == <<P("interval", interval), P("unit", unit), P("barsback", barsback),
                  P("firstdate", firstdate), P("lastdate", lastdate),
                  P("sessiontemplate", sessiontemplate)>>
  IN Method(AxiosGet(url, AuthOnly(this), params, undefined),
            ThenData,
            CatchWrap("Error fetching bars: "))

streamBars(this, symbol, interval0, unit0, barsback0, sessiontemplate) ==
  LET interval == Default(interval0, Str("1"))
      unit == Default(unit0, Str("Daily"))
      barsback == Default(barsback0, Str("1"))
      url == <<this.baseUrl, "/stream/", "barcharts/", Interpolate(symbol)>>
      params == <<P("interval", interval), P("unit", unit), P("barsback", barsback),
                  P("sessiontemplate", sessiontemplate)>>
  IN Method(AxiosGet(url, AuthStream(this), params, Str("stream")), ThenNone, CatchNone)

getCryptoSymbolNames(this) ==
  LET url == <<this.baseUrl, "/symbollists/cryptopairs/symbolnames">>
  IN Method(AxiosGet(url, AuthOnly(this), <<>>, undefined),
            ThenField("SymbolNames"),
            CatchWrap("Error fetching crypto symbol names: "))

getSymbolDetails(this, symbols) ==
  LET url == <<this.baseUrl, "/symbols/", Interpolate(symbols)>>
  IN Method(AxiosGet(url, AuthOnly(this), <<>>, undefined),
            ThenData,
            CatchWrap("Error fetching symbol details: "))

getOptionExpirations(this, underlying, strikePrice0) ==
  LET strikePrice == Default(strikePrice0, null)
      url == <<this.baseUrl, "/options/expirations/", Interpolate(underlying)>>
      params == IF Truthy(strikePrice) THEN <<P("strikePrice", strikePrice)>> ELSE <<>>
  IN Method(AxiosGet(url, AuthOnly(this), params, undefined),
            ThenField("Expirations"),
            CatchWrap("Error fetching option expirations: "))

getOptionRiskReward(this, riskRewardInput) ==
  LET url == <<this.baseUrl, "/options/riskreward">>
  IN Method(AxiosPost(url, riskRewardInput, AuthJson(this)),
            ThenData,
            CatchWrap("Error analyzing option risk vs. reward: "))

getOptionSpreadTypes(this) ==
  LET url == <<this.baseUrl, "/options/spreadtypes">>
  IN Method(AxiosGet(url, AuthOnly(this), <<>>, undefined),
            ThenField("SpreadTypes"),
            CatchWrap("Error fetching option spread types: "))

\* getOptionStrikes that returns response.data instead of picking the two fields
getOptionStrikesReturnsBody(this, underlying, spreadType0, strikeInterval0, expiration, expiration2) ==
  LET spreadType == Default(spreadType0, Str("Single"))
      strikeInterval == Default(strikeInterval0, Num("1"))
      url == <<this.baseUrl, "/options/strikes/", Interpolate(underlying)>>
      params == <<P("spreadType", spreadType), P("strikeInterval", strikeInterval),
                  P("expiration", expiration), P("expiration2", expiration2)>>
  IN Method(AxiosGet(url, AuthOnly(this), params, undefined),
            ThenData,
            CatchWrap("Error fetching option strikes: "))

getOptionStrikes(this, underlying, spreadType0, strikeInterval0, expiration, expiration2) ==
  LET spreadType == Default(spreadType0, Str("Single"))
      strikeInterval == Default(strikeInterval0, Num("1"))
      url == <<this.baseUrl, "/options/strikes/", Interpolate(underlying)>>
      params == <<P("spreadType", spreadType), P("strikeInterval", strikeInterval),
                  P("expiration", expiration), P("expiration2", expiration2)>>
  IN Method(AxiosGet(url, AuthOnly(this), params, undefined),
            ThenStrikes,
            CatchWrap("Error fetching option strikes: "))

streamOptionChain(this, underlying, expiration, expiration2, strikeProximity0, spreadType0, riskFreeRate, priceCenter, strikeInterval0, enableGreeks0, strikeRange0, optionType0) ==
  LET strikeProximity == Default(strikeProximity0, Num("5"))
      spreadType == Default(spreadType0, Str("Single"))
      strikeInterval == Default(strikeInterval0, Num("1"))
      enableGreeks == Default(enableGreeks0, Bool("true"))
      strikeRange == Default(strikeRange0, Str("All"))
      optionType == Default(optionType0, Str("All"))
      url == <<this.baseUrl, "/stream/", "options/chains/", Interpolate(underlying)>>
      params == <<P("expiration", expiration), P("expiration2", expiration2),
                  P("strikeProximity", strikeProximity), P("spreadType", spreadType),
                  P("riskFreeRate", riskFreeRate), P("priceCenter", priceCenter),
                  P("strikeInterval", strikeInterval), P("enableGreeks", enableGreeks),
                  P("strikeRange", strikeRange), P("optionType", optionType)>>
  IN Method(AxiosGet(url, AuthStream(this), params, Str("stream")), ThenNone, CatchNone)

streamOptionQuotes(this, legs_0_Symbol, legs_0_Ratio0, riskFreeRate, enableGreeks0) ==
  LET legs_0_Ratio == Default(legs_0_Ratio0, Num("1"))
      enableGreeks == Default(enableGreeks0, Bool("true"))
      url == <<this.baseUrl, "/stream/", "options/quotes">>
      params == <<P("legs[0].Symbol", legs_0_Symbol), P("legs[0].Ratio", legs_0_Ratio),
                  P("riskFreeRate", riskFreeRate), P("enableGreeks", enableGreeks)>>
  IN Method(AxiosGet(url, AuthStream(this), params, Str("stream")), ThenNone, CatchNone)

getQuoteSnapshots(this, symbols) ==
  LET url == <<this.baseUrl, "/quotes/", Interpolate(symbols)>>
  IN Method(AxiosGet(url, AuthOnly(this), <<>>, undefined), ThenNone, CatchNone)

streamQuoteChanges(this, symbols) ==
  LET url == <<this.baseUrl, "/stream/", "quotes/", Interpolate(symbols)>>
  IN Method(AxiosGet(url, AuthStream(this), <<>>, Str("stream")), ThenNone, CatchNone)

streamMarketDepthQuotes(this, symbol, maxLevels0) ==
  LET maxLevels == Default(maxLevels0, Num("20"))
      url == <<this.baseUrl, "/stream/", "marketdepth/quotes/", Interpolate(symbol)>>
      params == <<P("maxlevels", maxLevels)>>
  IN Method(AxiosGet(url, AuthStream(this), params, Str("stream")), ThenNone, CatchNone)

streamMarketDepthAggregates(this, symbol, maxLevels0) ==
  LET maxLevels == Default(maxLevels0, Num("20"))
      url == <<this.baseUrl, "/stream/", "marketdepth/aggregates/", Interpolate(symbol)>>
      params == <<P("maxlevels", maxLevels)>>
  IN Method(AxiosGet(url, AuthStream(this), params, Str("stream")), ThenNone, CatchNone)

streamTickBars(this, symbol, interval, barsBack) ==
  LET url == <<"https://api.tradestation.com/v2", "/stream/", "tickbars/",
               Interpolate(symbol), "/", Interpolate(interval), "/", Interpolate(barsBack)>>
  IN Method(AxiosGet(url, AuthOnly(this), <<>>, undefined),
            ThenData,
            CatchLogRethrow("Error streaming tick bars:"))

----------------------------------------------------------------------------
(* The public methods, and a call of one with positional arguments *)

AccountsMethods ==
  {"getAccounts", "getAccountBalances", "getBalancesBOD", "getHistoricalOrders",
   "getHistoricalOrdersByOrderID", "getOrders", "getOrdersByOrderID",
   "getPositions", "getWallets", "streamWallets", "streamOrders",
   "streamOrdersByOrderId", "streamPositions"}

OrdersMethods ==
  {"confirmOrder", "confirmGroupOrder", "placeGroupOrder", "placeOrder",
   "replaceOrder", "getActivationTriggers", "getRoutes"}

SymbolsMethods == {"suggestSymbols", "searchSymbols"}

MarketDataMethods ==
  {"getBars", "streamBars", "getCryptoSymbolNames", "getSymbolDetails",
   "getOptionExpirations", "getOptionRiskReward", "getOptionSpreadTypes",
   "getOptionStrikes", "streamOptionChain", "streamOptionQuotes",
   "getQuoteSnapshots", "streamQuoteChanges", "streamMarketDepthQuotes",
   "streamMarketDepthAggregates", "streamTickBars"}

Methods == AccountsMethods \cup OrdersMethods \cup SymbolsMethods \cup MarketDataMethods

ClassOf(m) ==
  CASE m \in AccountsMethods   -> "Accounts"
    [] m \in OrdersMethods     -> "Orders"
    [] m \in SymbolsMethods    -> "Symbols"
    [] m \in MarketDataMethods -> "MarketData"

\* instance.m(...a)
Dispatch(m, this, a) ==
  CASE m = "getAccounts" -> getAccounts(this)
    [] m = "getAccountBalances" -> getAccountBalances(this, Arg(a, 1))
    [] m = "getBalancesBOD" -> getBalancesBOD(this, Arg(a, 1))
    [] m = "getHistoricalOrders" ->
         getHistoricalOrders(this, Arg(a, 1), Arg(a, 2), Arg(a, 3), Arg(a, 4))
    [] m = "getHistoricalOrdersByOrderID" ->
         getHistoricalOrdersByOrderID(this, Arg(a, 1), Arg(a, 2), Arg(a, 3))
    [] m = "getOrders" -> getOrders(this, Arg(a, 1), Arg(a, 2), Arg(a, 3))
    [] m = "getOrdersByOrderID" -> getOrdersByOrderID(this, Arg(a, 1), Arg(a, 2))
    [] m = "getPositions" -> getPositions(this, Arg(a, 1), Arg(a, 2))
    [] m = "getWallets" -> getWallets(this, Arg(a, 1))
    [] m = "streamWallets" -> streamWallets(this, Arg(a, 1))
    [] m = "streamOrders" -> streamOrders(this, Arg(a, 1))
    [] m = "streamOrdersByOrderId" -> streamOrdersByOrderId(this, Arg(a, 1), Arg(a, 2))
    [] m = "streamPositions" -> streamPositions(this, Arg(a, 1), Arg(a, 2))
    [] m = "confirmOrder" -> confirmOrder(this, Arg(a, 1))
    [] m = "confirmGroupOrder" -> confirmGroupOrder(this, Arg(a, 1))
    [] m = "placeGroupOrder" -> placeGroupOrder(this, Arg(a, 1))
    [] m = "placeOrder" -> placeOrder(this, Arg(a, 1))
    [] m = "replaceOrder" -> replaceOrder(this, Arg(a, 1), Arg(a, 2))
    [] m = "getActivationTriggers" -> getActivationTriggers(this)
    [] m = "getRoutes" -> getRoutes(this)
    [] m = "suggestSymbols" -> suggestSymbols(this, Arg(a, 1), Arg(a, 2), Arg(a, 3))
    [] m = "searchSymbols" -> searchSymbols(this, Arg(a, 1))
    [] m = "getBars" ->
         getBars(this, Arg(a, 1), Arg(a, 2), Arg(a, 3), Arg(a, 4), Arg(a, 5),
                 Arg(a, 6), Arg(a, 7))
    [] m = "streamBars" ->
         streamBars(this, Arg(a, 1), Arg(a, 2), Arg(a, 3), Arg(a, 4), Arg(a, 5))
    [] m = "getCryptoSymbolNames" -> getCryptoSymbolNames(this)
    [] m = "getSymbolDetails" -> getSymbolDetails(this, Arg(a, 1))
    [] m = "getOptionExpirations" -> getOptionExpirations(this, Arg(a, 1), Arg(a, 2))
    [] m = "getOptionRiskReward" -> getOptionRiskReward(this, Arg(a, 1))
    [] m = "getOptionSpreadTypes" -> getOptionSpreadTypes(this)
    [] m = "getOptionStrikes" ->
         getOptionStrikes(this, Arg(a, 1), Arg(a, 2), Arg(a, 3), Arg(a, 4), Arg(a, 5))
    [] m = "streamOptionChain" ->
         streamOptionChain(this, Arg(a, 1), Arg(a, 2), Arg(a, 3), Arg(a, 4), Arg(a, 5),
                           Arg(a, 6), Arg(a, 7), Arg(a, 8), Arg(a, 9), Arg(a, 10),
                           Arg(a, 11))
    [] m = "streamOptionQuotes" ->
         streamOptionQuotes(this, Arg(a, 1), Arg(a, 2), Arg(a, 3), Arg(a, 4))
    [] m = "getQuoteSnapshots" -> getQuoteSnapshots(this, Arg(a, 1))
    [] m = "streamQuoteChanges" -> streamQuoteChanges(this, Arg(a, 1))
    [] m = "streamMarketDepthQuotes" -> streamMarketDepthQuotes(this, Arg(a, 1), Arg(a, 2))
    [] m = "streamMarketDepthAggregates" ->
         streamMarketDepthAggregates(this, Arg(a, 1), Arg(a, 2))
    [] m = "streamTickBars" -> streamTickBars(this, Arg(a, 1), Arg(a, 2), Arg(a, 3))

(* The signatures: per parameter the name the request carries it under,  *)
(* whether the caller must pass it, and the default the method gives it  *)
(* in its parameter list or in its body (undefined when it gives none).  *)

Req(name) == [name |-> name, required |-> TRUE, hasDefault |-> FALSE, default |-> undefined]

Opt(name) == [name |-> name, required |-> FALSE, hasDefault |-> FALSE, default |-> undefined]

Dflt(name, d) == [name |-> name, required |-> FALSE, hasDefault |-> TRUE, default |-> d]

Signature(m) ==
  CASE m \in {"getAccounts", "getActivationTriggers", "getRoutes",
              "getCryptoSymbolNames", "getOptionSpreadTypes"} -> <<>>
    [] m \in {"getAccountBalances", "getBalancesBOD"} -> <<Req("accountIds")>>
    [] m = "getHistoricalOrders" ->
         <<Req("accounts"), Req("since"), Dflt("pageSize", Num("600")),
           Dflt("nextToken", null)>>
    [] m = "getHistoricalOrdersByOrderID" ->
         <<Req("accounts"), Req("orderIds"), Opt("since")>>
    [] m = "getOrders" ->
         <<Req("accounts"), Dflt("pageSize", Num("600")), Opt("nextToken")>>
    [] m = "getOrdersByOrderID" -> <<Req("accountIds"), Req("orderIds")>>
    [] m = "getPositions" -> <<Req("accounts"), Opt("symbol")>>
    [] m = "getWallets" -> <<Req("accountID")>>
    [] m = "streamWallets" -> <<Req("account")>>
    [] m = "streamOrders" -> <<Req("accountIds")>>
    [] m = "streamOrdersByOrderId" -> <<Req("accountIds"), Req("ordersIds")>>
    [] m = "streamPositions" -> <<Req("accountIds"), Dflt("changes", Bool("false"))>>
    [] m \in {"confirmOrder", "placeOrder"} -> <<Req("order")>>
    [] m \in {"confirmGroupOrder", "placeGroupOrder"} -> <<Req("groupOrder")>>
    [] m = "replaceOrder" -> <<Req("orderID"), Req("replacementOrder")>>
    [] m = "suggestSymbols" -> <<Req("text"), Opt("$top"), Opt("$filter")>>
    [] m = "searchSymbols" -> <<Req("criteria")>>
    [] m = "getBars" ->
         <<Req("symbol"), Dflt("interval", Str("1")), Dflt("unit", Str("Daily")),
           Dflt("barsback", Str("1")), Opt("firstdate"), Dflt("lastdate", Now),
           Opt("sessiontemplate")>>
    [] m = "streamBars" ->
         <<Req("symbol"), Dflt("interval", Str("1")), Dflt("unit", Str("Daily")),
           Dflt("barsback", Str("1")), Opt("sessiontemplate")>>
    [] m \in {"getSymbolDetails", "getQuoteSnapshots", "streamQuoteChanges"} ->
         <<Req("symbols")>>
    [] m = "getOptionExpirations" -> <<Req("underlying"), Dflt("strikePrice", null)>>
    [] m = "getOptionRiskReward" -> <<Req("riskRewardInput")>>
    [] m = "getOptionStrikes" ->
         <<Req("underlying"), Dflt("spreadType", Str("Single")),
           Dflt("strikeInterval", Num("1")), Opt("expiration"), Opt("expiration2")>>
    [] m = "streamOptionChain" ->
         <<Req("underlying"), Opt("expiration"), Opt("expiration2"),
           Dflt("strikeProximity", Num("5")), Dflt("spreadType", Str("Single")),
           Opt("riskFreeRate"), Opt("priceCenter"), Dflt("strikeInterval", Num("1")),
           Dflt("enableGreeks", Bool("true")), Dflt("strikeRange", Str("All")),
           Dflt("optionType", Str("All"))>>
    [] m = "streamOptionQuotes" ->
         <<Req("legs[0].Symbol"), Dflt("legs[0].Ratio", Num("1")), Opt("riskFreeRate"),
           Dflt("enableGreeks", Bool("true"))>>
    [] m \in {"streamMarketDepthQuotes", "streamMarketDepthAggregates"} ->
         <<Req("symbol"), Dflt("maxlevels", Num("20"))>>
    [] m = "streamTickBars" -> <<Req("symbol"), Req("interval"), Req("barsBack")>>

----------------------------------------------------------------------------
(* The inputs: the values a caller passes *)

AnOrder == Obj([Symbol |-> Str("MSFT"), Quantity |-> Str("10"), TradeAction |-> Str("BUY")])

\* a value a caller passes for the parameter of that name
SampleOf(name) ==
  CASE name \in {"accountIds", "accounts", "accountID", "account"} -> Str("61999124")
    [] name \in {"orderIds", "ordersIds", "orderID"} -> Str("286234131")
    [] name \in {"symbol", "symbols", "underlying", "legs[0].Symbol", "text"} -> Str("MSFT")
    [] name = "criteria" -> Str("n=MSFT")
    [] name \in {"order", "groupOrder", "replacementOrder", "riskRewardInput"} -> AnOrder
    [] name = "since" -> Str("2024-01-01")
    [] name = "pageSize" -> Num("50")
    [] name = "nextToken" -> Str("page2")
    [] name = "changes" -> Bool("true")
    [] name = "$top" -> Num("5")
    [] name = "$filter" -> Str("Category eq 'Stock'")
    [] name = "interval" -> Str("5")
    [] name = "unit" -> Str("Minute")
    [] name \in {"barsback", "barsBack"} -> Str("10")
    [] name = "firstdate" -> Str("2024-01-02")
    [] name = "lastdate" -> Str("2024-02-01")
    [] name = "sessiontemplate" -> Str("USEQPre")
    [] name = "strikePrice" -> Num("150")
    [] name = "spreadType" -> Str("Calendar")
    [] name = "strikeInterval" -> Num("2")
    [] name = "expiration" -> Str("2024-03-15")
    [] name = "expiration2" -> Str("2024-04-19")
    [] name = "strikeProximity" -> Num("3")
    [] name = "riskFreeRate" -> Num("0.05")
    [] name = "priceCenter" -> Num("100")
    [] name = "enableGreeks" -> Bool("false")
    [] name = "strikeRange" -> Str("ITM")
    [] name = "optionType" -> Str("Call")
    [] name = "legs[0].Ratio" -> Num("-1")
    [] name = "maxlevels" -> Num("10")

\* the values the model passes for parameter i of method m
Supplied(m, i) ==
  LET name == Signature(m)[i].name
  IN CASE m = "getPositions" /\ name = "symbol" -> {Str("MSFT"), Str("")}
       [] m = "getOptionExpirations" /\ name = "strikePrice" -> {Num("150"), Num("0"), null}
       [] m = "getHistoricalOrders" /\ name = "nextToken" -> {Str("page2"), null}
       [] m = "getOrders" /\ name = "pageSize" -> {Num("50"), undefined}
       [] m = "getBars" /\ name = "lastdate" -> {Str("2024-02-01"), undefined}
       [] m = "getOptionStrikes" /\ name = "spreadType" -> {Str("Calendar"), undefined}
       [] OTHER -> {SampleOf(name)}

\* the number of leading parameters a caller must pass
MinArgs(m) == Cardinality({i \in DOMAIN Signature(m) : Signature(m)[i].required})

RECURSIVE ArgsOfLength(_, _)
ArgsOfLength(m, k) ==
  IF k = 0 THEN {<<>>}
  ELSE {Append(a, v) : a \in ArgsOfLength(m, k - 1), v \in Supplied(m, k)}

\* the argument lists of the calls of m: trailing optional arguments may be left out
ArgLists(m) ==
  UNION {ArgsOfLength(m, k) : k \in MinArgs(m)..Len(Signature(m))}

\* the calls a caller makes: a method and its arguments
Calls == UNION {{<<m, a>> : a \in ArgLists(m)} : m \in Methods}

----------------------------------------------------------------------------
(* axios, the transport *)

ResponseFields ==
  {"Accounts", "Balances", "BODBalances", "Orders", "Positions", "Wallets",
   "Confirmations", "OrderConfirmResponses", "ActivationTriggers", "Routes",
   "SymbolNames", "Expirations", "SpreadTypes", "SpreadType", "Strikes"}

\* a JSON body that holds every field a method may unwrap
FullBody == Obj([k \in ResponseFields |-> [t |-> "array", s |-> "<" \o k \o ">", f |-> NoFields]])

\* a JSON body that holds none of them
EmptyBody == Obj(NoFields)

Bodies == {FullBody, EmptyBody}

\* the readable stream axios hands over for responseType 'stream'
Stream == [t |-> "stream", s |-> "[object Object]", f |-> NoFields]

\* the HTTP statuses of failed requests; "" is a failure with no response at all
FailureStatuses == {"401", "500", ""}

\* the response axios resolves with: data is the stream itself when the
\* request asked for responseType 'stream', else the parsed body
Response(request, body) ==
  Obj([data |-> IF request.responseType = Str("stream") THEN Stream ELSE body,
       status |-> Num("200")])

\* the error axios rejects with
AxiosError(status) ==
  IF status = ""
  THEN [t |-> "AxiosError", s |-> "AxiosError: Network Error",
        f |-> [message |-> Str("Network Error")]]
  ELSE [t |-> "AxiosError",
        s |-> "AxiosError: Request failed with status code " \o status,
        f |-> [message |-> Str("Request failed with status code " \o status),
               response |-> Obj([status |-> Num(status), data |-> EmptyBody])]]

\* the pairs of the query string axios appends: null and undefined are left out
RECURSIVE Serialize(_)
Serialize(params) ==
  IF params = <<>> THEN <<>>
  ELSE LET p == Head(params)
       IN (IF p.v.t \in {"undefined", "null"} THEN <<>> ELSE <<[k |-> p.k, v |-> p.v.s]>>)
          \o Serialize(Tail(params))

\* new Error(message)
NewError(message) ==
  [t |-> "Error", s |-> "Error: " \o message, f |-> [message |-> Str(message)]]

----------------------------------------------------------------------------
(* The handlers *)

\* what the fulfilment handler returns for the response of axios
ApplyThen(h, response) ==
  LET data == Get(response, "data")
  IN CASE h.kind = "field" -> Get(data, h.arg)
       [] h.kind = "data" -> data
       [] h.kind = "listen" -> undefined
       [] h.kind = "strikes" ->
            Obj([SpreadType |-> Get(data, "SpreadType"), Strikes |-> Get(data, "Strikes")])
       [] h.kind = "none" -> response

\* ApplyCatch with the throw forgotten: the error is printed and the handler
\* returns, so the promise of the method is fulfilled with undefined
ApplyCatchSwallows(h, error, request) ==
  CASE h.kind = "logRethrow" ->
         [outcome |-> [state |-> "fulfilled", value |-> undefined],
          console |-> <<[label |-> h.arg, error |-> error]>>,
          requests |-> <<>>]
    [] h.kind = "wrap" ->
         [outcome |-> [state |-> "rejected",
                       value |-> NewError(h.arg \o Get(error, "message").s)],
          console |-> <<>>,
          requests |-> <<>>]
    [] h.kind = "none" ->
         [outcome |-> [state |-> "rejected", value |-> error],
          console |-> <<>>,
          requests |-> <<>>]

\* ApplyCatch with a retry: the handler issues the request once more
ApplyCatchRetries(h, error, request) ==
  CASE h.kind = "logRethrow" ->
         [outcome |-> [state |-> "rejected", value |-> error],
          console |-> <<[label |-> h.arg, error |-> error]>>,
          requests |-> <<request>>]
    [] h.kind = "wrap" ->
         [outcome |-> [state |-> "rejected",
                       value |-> NewError(h.arg \o Get(error, "message").s)],
          console |-> <<>>,
          requests |-> <<request>>]
    [] h.kind = "none" ->
         [outcome |-> [state |-> "rejected", value |-> error],
          console |-> <<>>,
          requests |-> <<>>]

\* ApplyCatch where the try/catch of the async methods logs and rethrows the
\* original error like the .catch of the other methods
ApplyCatchLogsWrapped(h, error, request) ==
  CASE h.kind = "logRethrow" ->
         [outcome |-> [state |-> "rejected", value |-> error],
          console |-> <<[label |-> h.arg, error |-> error]>>,
          requests |-> <<>>]
    [] h.kind = "wrap" ->
         [outcome |-> [state |-> "rejected", value |-> error],
          console |-> <<[label |-> h.arg, error |-> error]>>,
          requests |-> <<>>]
    [] h.kind = "none" ->
         [outcome |-> [state |-> "rejected", value |-> error],
          console |-> <<>>,
          requests |-> <<>>]

\* what the rejection handler does with the error of axios: how the promise
\* of the method settles, the console.error lines printed, and the requests
\* the handler issues
ApplyCatch(h, error, request) ==
  CASE h.kind = "logRethrow" ->
         [outcome |-> [state |-> "rejected", value |-> error],
          console |-> <<[label |-> h.arg, error |-> error]>>,
          requests |-> <<>>]
    [] h.kind = "wrap" ->
         [outcome |-> [state |-> "rejected",
                       value |-> NewError(h.arg \o Get(error, "message").s)],
          console |-> <<>>,
          requests |-> <<>>]
    [] h.kind = "none" ->
         [outcome |-> [state |-> "rejected", value |-> error],
          console |-> <<>>,
          requests |-> <<>>]

----------------------------------------------------------------------------
(* The state machine: one caller that invokes a method, the transport     *)
(* that settles the promise of axios, the handlers that settle the        *)
(* promise the method returned, and the owner who replaces a token.       *)

Pending == [state |-> "pending", value |-> undefined]

Fulfilled(v) == [state |-> "fulfilled", value |-> v]

Rejected(v) == [state |-> "rejected", value |-> v]

NoCall == [stage |-> "idle"]

(* The connection of a call, as the stream of axios shows it: whether it  *)
(* is open, how often it was closed, whether a 'data' listener is         *)
(* attached, the records handed to a consumer, whether the caller has     *)
(* cancelled, and the records handed over after that.                     *)

NoConn ==
  [state |-> "none", closes |-> 0, listener |-> FALSE, records |-> 0,
   cancelled |-> FALSE, late |-> 0]

\* the connection once axios has resolved: it stays open behind a stream for
\* responseType 'stream'; otherwise axios has read the body to its end and
\* hands over no stream
Connect(request) ==
  IF request.responseType = Str("stream")
  THEN [NoConn EXCEPT !.state = "open"]
  ELSE NoConn

\* the readable stream a value gives its holder: the value itself, or the
\* data of a response of axios; undefined when the value gives none
StreamOf(v) ==
  IF v = Stream THEN Stream
  ELSE IF Get(v, "data") = Stream THEN Stream
  ELSE undefined

\* stream.destroy(): closes the connection, once
Destroy(conn) ==
  IF conn.state = "open"
  THEN [conn EXCEPT !.state = "closed", !.closes = conn.closes + 1]
  ELSE conn

\* new Accounts(token), new Orders(token), new Symbols(token), new MarketData(token)
Init ==
  /\ token \in [Classes -> Tokens]
  /\ call = NoCall

\* SetToken with the requests in flight signed again with the new token, as
\* if their headers read this.token when the request leaves
SetTokenResigns(c, tok) ==
  /\ tok # token[c]
  /\ token' = [token EXCEPT ![c] = tok]
  /\ call' = IF call.stage \in {"inflight", "responded"} /\ ClassOf(call.m) = c
             THEN [call EXCEPT !.request.headers =
                     [h \in DOMAIN call.request.headers |->
                        IF h = "Authorization" THEN "Bearer " \o tok
                        ELSE call.request.headers[h]]]
             ELSE call

\* instance.token = tok : the owner of an instance replaces its token
SetToken(c, tok) ==
  /\ tok # token[c]
  /\ token' = [token EXCEPT ![c] = tok]
  /\ UNCHANGED call

\* the synchronous part of a method call: the request is built from the
\* arguments and this.token and handed to axios, the handlers are chained
Invoke(m, a) ==
  /\ call.stage = "idle"
  /\ LET meth == Dispatch(m, This(ClassOf(m)), a)
     IN call' = [stage |-> "inflight", m |-> m, args |-> a,
                 heldToken |-> token[ClassOf(m)],
                 request |-> meth.request,
                 onFulfilled |-> meth.onFulfilled,
                 onRejected |-> meth.onRejected,
                 sent |-> <<meth.request>>,
                 axios |-> Pending, promise |-> Pending, console |-> <<>>,
                 conn |-> NoConn]
  /\ UNCHANGED token

\* the transport answers 2xx with a JSON body
AxiosResolves(body) ==
  /\ call.stage = "inflight"
  /\ LET response == Response(call.request, body)
     IN call' = IF call.onFulfilled.kind = "none"
                THEN [call EXCEPT !.stage = "settled",
                                  !.axios = Fulfilled(response),
                                  !.promise = Fulfilled(response),
                                  !.conn = Connect(call.request)]
                ELSE [call EXCEPT !.stage = "responded",
                                  !.axios = Fulfilled(response),
                                  !.conn = Connect(call.request)]
  /\ UNCHANGED token

\* the transport fails: a status outside 2xx, or no response
AxiosRejects(status) ==
  /\ call.stage = "inflight"
  /\ LET error == AxiosError(status)
     IN call' = IF call.onRejected.kind = "none"
                THEN [call EXCEPT !.stage = "settled",
                                  !.axios = Rejected(error),
                                  !.promise = Rejected(error)]
                ELSE [call EXCEPT !.stage = "responded",
                                  !.axios = Rejected(error)]
  /\ UNCHANGED token

\* the fulfilment handler runs
RunThen ==
  /\ call.stage = "responded"
  /\ call.axios.state = "fulfilled"
  /\ call' = [call EXCEPT !.stage = "settled",
                          !.promise = Fulfilled(ApplyThen(call.onFulfilled, call.axios.value)),
                          !.conn.listener = (call.onFulfilled.kind = "listen")]
  /\ UNCHANGED token

\* the rejection handler runs
RunCatch ==
  /\ call.stage = "responded"
  /\ call.axios.state = "rejected"
  /\ LET did == ApplyCatch(call.onRejected, call.axios.value, call.request)
     IN call' = [call EXCEPT !.stage = "settled",
                             !.promise = did.outcome,
                             !.console = call.console \o did.console,
                             !.sent = call.sent \o did.requests]
  /\ UNCHANGED token

\* the stream has a consumer: the 'data' listener of the method, or the
\* caller who was handed the stream and has not cancelled it
Consumed ==
  \/ call.conn.listener
  \/ /\ call.stage = "settled"
     /\ StreamOf(call.promise.value) = Stream
     /\ ~call.conn.cancelled

\* the open connection delivers a record to the consumer of the stream
StreamData ==
  /\ call.stage \in {"responded", "settled"}
  /\ call.conn.state = "open"
  /\ call.conn.records < MaxRecords
  /\ Consumed
  /\ call' = [call EXCEPT !.conn.records = call.conn.records + 1,
                          !.conn.late = IF call.conn.cancelled
                                        THEN call.conn.late + 1
                                        ELSE call.conn.late]
  /\ UNCHANGED token

\* the server ends the stream: the connection closes
StreamEnd ==
  /\ call.stage \in {"responded", "settled"}
  /\ call.conn.state = "open"
  /\ call' = [call EXCEPT !.conn.state = "closed",
                          !.conn.closes = call.conn.closes + 1]
  /\ UNCHANGED token

\* the caller cancels, before the stream is exhausted, the stream the
\* promise of the method has handed over: it destroys the stream the value
\* gives it, and can do nothing when the value gives none
Cancel ==
  /\ call.stage = "settled"
  /\ call.promise.state = "fulfilled"
  /\ call.conn.state = "open"
  /\ ~call.conn.cancelled
  /\ call' = [call EXCEPT !.conn =
                [(IF StreamOf(call.promise.value) = Stream
                  THEN Destroy(call.conn)
                  ELSE call.conn) EXCEPT !.cancelled = TRUE]]
  /\ UNCHANGED token

\* the caller has taken the outcome of the call
Return ==
  /\ call.stage = "settled"
  /\ call' = NoCall
  /\ UNCHANGED token

Next ==
  \/ \E c \in Calls : Invoke(c[1], c[2])
  \/ \E body \in Bodies : AxiosResolves(body)
  \/ \E status \in FailureStatuses : AxiosRejects(status)
  \/ RunThen
  \/ RunCatch
  \/ StreamData
  \/ StreamEnd
  \/ Cancel
  \/ Return
  \/ \E c \in Classes : \E tok \in Tokens : SetToken(c, tok)

Spec == Init /\ [][Next]_vars

\* the event loop runs every handler whose promise has settled
FairSpec == Spec /\ WF_vars(RunThen) /\ WF_vars(RunCatch)

----------------------------------------------------------------------------
(* Vocabulary of the properties *)

Started == call.stage # "idle"

Settled == call.stage = "settled"

Answered2xx == Started /\ call.axios.state = "fulfilled"

TransportFailed == Started /\ call.axios.state = "rejected"

\* the methods whose URL path contains /stream/
StreamingMethods ==
  {"streamWallets", "streamOrders", "streamOrdersByOrderId", "streamPositions",
   "streamBars", "streamOptionChain", "streamOptionQuotes", "streamQuoteChanges",
   "streamMarketDepthQuotes", "streamMarketDepthAggregates", "streamTickBars"}

\* the methods documented to resolve to the whole response body
WholeBodyMethods ==
  {"getHistoricalOrders", "getHistoricalOrdersByOrderID", "replaceOrder",
   "suggestSymbols", "searchSymbols", "getBars", "getSymbolDetails",
   "getOptionRiskReward", "getQuoteSnapshots"}

\* the field of the response body a method is documented to resolve to
UnwrapKey(m) ==
  CASE m = "getAccounts" -> "Accounts"
    [] m = "getAccountBalances" -> "Balances"
    [] m = "getBalancesBOD" -> "BODBalances"
    [] m \in {"getOrders", "getOrdersByOrderID", "placeOrder", "placeGroupOrder"} -> "Orders"
    [] m = "getPositions" -> "Positions"
    [] m = "getWallets" -> "Wallets"
    [] m = "confirmOrder" -> "Confirmations"
    [] m = "confirmGroupOrder" -> "OrderConfirmResponses"
    [] m = "getActivationTriggers" -> "ActivationTriggers"
    [] m = "getRoutes" -> "Routes"
    [] m = "getCryptoSymbolNames" -> "SymbolNames"
    [] m = "getOptionExpirations" -> "Expirations"
    [] m = "getOptionSpreadTypes" -> "SpreadTypes"

UnwrappingMethods ==
  {"getAccounts", "getAccountBalances", "getBalancesBOD", "getOrders",
   "getOrdersByOrderID", "placeOrder", "placeGroupOrder", "getPositions",
   "getWallets", "confirmOrder", "confirmGroupOrder", "getActivationTriggers",
   "getRoutes", "getCryptoSymbolNames", "getOptionExpirations",
   "getOptionSpreadTypes"}

\* the JSON body the transport answered with
AnsweredBody == Get(call.axios.value, "data")

\* the HTTP status a caller reads from a rejection: error.response.status
StatusOf(error) == Get(Get(error, "response"), "status")

\* the value parameter i of the call in progress has once its default is applied
Effective(i) ==
  LET p == Signature(call.m)[i]
  IN IF p.hasDefault THEN Default(Arg(call.args, i), p.default) ELSE Arg(call.args, i)

RECURSIVE QueryTokens(_)
QueryTokens(pairs) ==
  IF pairs = <<>> THEN <<>>
  ELSE <<"&", Head(pairs).k, "=", Head(pairs).v>> \o QueryTokens(Tail(pairs))

\* the URL that leaves with a request, as the pieces it is put together from:
\* the pieces of the URL the method built, then the serialized params
Wire(request) == request.url \o QueryTokens(Serialize(request.params))

Pieces(seq) == {seq[i] : i \in DOMAIN seq}

----------------------------------------------------------------------------
(* C1..C10 *)

\* C1: when the transport answers 2xx with a body that holds the method's
\* expected field, the promise of a non-streaming method is fulfilled with
\* exactly body[field], or with exactly the body for a whole-body method.
C1_ResolvesToExpectedField ==
  (Settled /\ Answered2xx /\ call.m \notin StreamingMethods) =>
    /\ call.m \in WholeBodyMethods => call.promise = Fulfilled(AnsweredBody)
    /\ (call.m \in UnwrappingMethods /\ UnwrapKey(call.m) \in DOMAIN AnsweredBody.f) =>
         call.promise = Fulfilled(AnsweredBody.f[UnwrapKey(call.m)])

\* C2: when the transport fails with status 401 or 500, the promise of the
\* method is rejected with an error whose response.status is that status.
C2_RejectionCarriesStatus ==
  (Settled /\ TransportFailed
     /\ StatusOf(call.axios.value) \in {Num("401"), Num("500")}) =>
    /\ call.promise.state = "rejected"
    /\ StatusOf(call.promise.value) = StatusOf(call.axios.value)

\* C3: when the transport answers 2xx with a body that lacks the field the
\* method unwraps, the promise is rejected with a malformed-response error and
\* is never fulfilled with undefined.
C3_MissingFieldRejects ==
  (Settled /\ Answered2xx /\ call.onFulfilled.kind = "field"
     /\ call.onFulfilled.arg \notin DOMAIN AnsweredBody.f) =>
    /\ call.promise.state = "rejected"
    /\ call.promise.value.t = "MalformedResponseError"

\* C4: for every argument the caller leaves out (or whose default is null),
\* neither the parameter's name nor the text "undefined" is a piece of the
\* URL and query string that leave with the request.
C4_OmittedParamsAbsent ==
  Started =>
    \A i \in DOMAIN Signature(call.m) :
      Effective(i).t \in {"undefined", "null"} =>
        /\ Signature(call.m)[i].name \notin Pieces(Wire(call.request))
        /\ "undefined" \notin Pieces(Wire(call.request))

\* C5: once the transport has rejected, the promise of the method is never
\* fulfilled, and it is eventually rejected.
C5_FailurePropagates ==
  /\ [](TransportFailed => call.promise.state # "fulfilled")
  /\ (TransportFailed ~> (TransportFailed /\ call.promise.state = "rejected"))

\* a transport failure was printed by the rejection handler and then rejected
C5_Witness ==
  /\ Settled /\ TransportFailed
  /\ call.console # <<>>
  /\ call.promise.state = "rejected"

\* C6: every invocation hands exactly one request to the transport, the one
\* the method built, also once the request has failed and the rejection
\* handler has run.
C6_OneRequestPerCall ==
  Started => call.sent = <<call.request>>

\* a failed call whose rejection handler has run
C6_Witness ==
  /\ Settled /\ TransportFailed
  /\ call.onRejected.kind # "none"
  /\ Len(call.sent) = 1

\* C7: every request handed to the transport carries the header
\* Authorization: "Bearer " followed by the token the instance held when the
\* method was called.
C7_BearerOnEveryRequest ==
  Started =>
    \A i \in DOMAIN call.sent :
      /\ "Authorization" \in DOMAIN call.sent[i].headers
      /\ call.sent[i].headers["Authorization"] = "Bearer " \o call.heldToken

\* a request of each class is in flight, here one of the class whose method
\* does not use the base URL of its class
C7_Witness ==
  /\ call.stage = "inflight"
  /\ call.m = "streamTickBars"
  /\ call.request.headers["Authorization"] = "Bearer tok2"

\* C8: a token replacement leaves the request in flight as it was built (it
\* keeps the token the instance held at the call), a method call after the
\* replacement carries the instance's new token, and no step of a method
\* call changes a token.
C8_TokenReadAtConstruction ==
  [][/\ (call.stage \in {"inflight", "responded"} /\ call'.stage # "idle") =>
          /\ call'.request = call.request
          /\ call'.request.headers["Authorization"] = "Bearer " \o call.heldToken
     /\ (call.stage = "idle" /\ call'.stage = "inflight") =>
          call'.request.headers["Authorization"] =
            "Bearer " \o token[ClassOf(call'.m)]
     /\ call' # call => token' = token]_vars

\* the token of the instance was replaced while its request is in flight: the
\* request carries the token held at the call, not the instance's token
C8_Witness ==
  /\ call.stage = "inflight"
  /\ call.heldToken # token[ClassOf(call.m)]
  /\ call.request.headers["Authorization"] = "Bearer " \o call.heldToken

\* C9: the request of every streaming method has the header Accept:
\* application/vnd.tradestation.streams.v2+json and responseType "stream";
\* the request of every other method has neither.
C9_StreamRequestShape ==
  Started =>
    IF call.m \in StreamingMethods
    THEN /\ "Accept" \in DOMAIN call.request.headers
         /\ call.request.headers["Accept"] = "application/vnd.tradestation.streams.v2+json"
         /\ call.request.responseType = Str("stream")
    ELSE /\ "Accept" \notin DOMAIN call.request.headers
         /\ call.request.responseType = undefined

\* C10: on a successful request, the promise of every streaming method is
\* fulfilled with the open stream itself.
C10_ResolvesToStream ==
  (Settled /\ Answered2xx /\ call.m \in StreamingMethods) =>
    call.promise = Fulfilled(Stream)

----------------------------------------------------------------------------
(* C11..C19 *)

\* C11: when the caller of a streaming method cancels the returned stream
\* before it is exhausted, the connection is closed exactly once and no
\* record is delivered after the cancel.
C11_CancelClosesOnce ==
  (Started /\ call.m \in StreamingMethods /\ call.conn.cancelled) =>
    /\ call.conn.closes = 1
    /\ call.conn.late = 0

\* the pairs of the query string of the request that carry parameter k
Sent(k) == {p \in Pieces(Serialize(call.request.params)) : p.k = k}

\* C12: the request of getBars carries lastdate once: the time of the call
\* when the caller gave no lastdate, the caller's value unchanged otherwise.
C12_LastdateDefaultsToNow ==
  (Started /\ call.m = "getBars") =>
    Sent("lastdate") =
      {[k |-> "lastdate",
        v |-> IF Arg(call.args, 6).t = "undefined" THEN Now.s ELSE Arg(call.args, 6).s]}

\* getBars was called without a lastdate and its request is on its way
C12_Witness ==
  /\ call.stage = "inflight"
  /\ call.m = "getBars"
  /\ Arg(call.args, 6) = undefined
  /\ [k |-> "lastdate", v |-> Now.s] \in Sent("lastdate")

\* C13: getPositions issues one GET to <baseUrl>/accounts/<accounts>/positions;
\* its query parameters are empty when symbol is omitted and exactly {symbol}
\* when a non-empty symbol is given; on a 2xx answer it resolves to the
\* Positions of the body.
C13_GetPositions ==
  (Started /\ call.m = "getPositions") =>
    LET accounts == Arg(call.args, 1)
        symbol == Arg(call.args, 2)
    IN /\ call.sent = <<call.request>>
       /\ call.request.verb = "GET"
       /\ call.request.url =
            <<baseUrl["Accounts"], "/accounts/", accounts.s, "/positions">>
       /\ symbol = undefined => call.request.params = <<>>
       /\ (symbol.t = "string" /\ symbol.s # "") =>
            call.request.params = <<[k |-> "symbol", v |-> symbol]>>
       /\ (Settled /\ Answered2xx) =>
            call.promise = Fulfilled(Get(AnsweredBody, "Positions"))

\* getPositions was called with a symbol and has resolved to the positions
C13_Witness ==
  /\ Settled
  /\ call.m = "getPositions"
  /\ Arg(call.args, 2) = Str("MSFT")
  /\ call.request.params = <<[k |-> "symbol", v |-> Str("MSFT")]>>
  /\ AnsweredBody = FullBody
  /\ call.promise = Fulfilled(Get(FullBody, "Positions"))

\* C14: getOptionStrikes called with the underlying alone issues one GET to
\* <baseUrl>/options/strikes/<underlying> whose query string is exactly
\* spreadType=Single&strikeInterval=1, and on a 2xx answer resolves to an
\* object with exactly the fields SpreadType and Strikes of the body.
C14_GetOptionStrikes ==
  (Started /\ call.m = "getOptionStrikes" /\ Len(call.args) = 1) =>
    /\ call.sent = <<call.request>>
    /\ call.request.verb = "GET"
    /\ Wire(call.request) =
         <<baseUrl["MarketData"], "/options/strikes/", Arg(call.args, 1).s,
           "&", "spreadType", "=", "Single", "&", "strikeInterval", "=", "1">>
    /\ (Settled /\ Answered2xx) =>
         /\ call.promise.state = "fulfilled"
         /\ call.promise.value.t = "object"
         /\ DOMAIN call.promise.value.f = {"SpreadType", "Strikes"}
         /\ Get(call.promise.value, "SpreadType") = Get(AnsweredBody, "SpreadType")
         /\ Get(call.promise.value, "Strikes") = Get(AnsweredBody, "Strikes")

\* getOptionStrikes was called with the underlying alone and has resolved to
\* the strikes of a body that holds them
C14_Witness ==
  /\ Settled
  /\ call.m = "getOptionStrikes"
  /\ Len(call.args) = 1
  /\ AnsweredBody = FullBody
  /\ call.promise.state = "fulfilled"
  /\ Get(call.promise.value, "Strikes") = Get(FullBody, "Strikes")

\* the defaults the documentation gives, by the name of the argument
DocumentedDefault(name) ==
  CASE name = "interval" -> Str("1")
    [] name = "unit" -> Str("Daily")
    [] name = "pageSize" -> Num("600")
    [] name = "maxlevels" -> Num("20")
    [] name = "strikeInterval" -> Num("1")
    [] name = "enableGreeks" -> Bool("true")
    [] name = "strikeRange" -> Str("All")
    [] name = "optionType" -> Str("All")
    [] name = "spreadType" -> Str("Single")

DocumentedNames ==
  {"interval", "unit", "pageSize", "maxlevels", "strikeInterval", "enableGreeks",
   "strikeRange", "optionType", "spreadType"}

\* C15: for every defaulted argument the request carries the documented
\* default when the caller omits the argument, and the caller's value when the
\* caller supplies one.
C15_DefaultsApplied ==
  Started =>
    \A i \in DOMAIN Signature(call.m) :
      LET p == Signature(call.m)[i]
          given == Arg(call.args, i)
      IN (p.hasDefault /\ p.name \in DocumentedNames) =>
           Sent(p.name) =
             {[k |-> p.name,
               v |-> IF given = undefined THEN DocumentedDefault(p.name).s ELSE given.s]}

\* streamOptionChain was called with a strikeInterval of its own and without
\* enableGreeks, strikeRange and optionType; the request carries 2 and the
\* defaults
C15_Witness ==
  /\ Started
  /\ call.m = "streamOptionChain"
  /\ Len(call.args) = 8
  /\ Sent("strikeInterval") = {[k |-> "strikeInterval", v |-> "2"]}
  /\ Sent("enableGreeks") = {[k |-> "enableGreeks", v |-> "true"]}
  /\ Sent("optionType") = {[k |-> "optionType", v |-> "All"]}

\* the methods that send an order
WriteMethods ==
  {"confirmOrder", "confirmGroupOrder", "placeOrder", "placeGroupOrder", "replaceOrder"}

\* the position of the order among the arguments of a write method
OrderAt(m) == IF m = "replaceOrder" THEN 2 ELSE 1

\* C16: the body of the request of a write method is exactly the order the
\* caller passed, and no step of the call changes the caller's arguments;
\* confirmOrder, confirmGroupOrder, placeOrder and placeGroupOrder POST,
\* replaceOrder PUTs to <baseUrl>/orders/<orderID>.
C16_OrderSentAsPassed ==
  [][(call'.stage # "idle" /\ call'.m \in WriteMethods) =>
       /\ call'.request.data = Arg(call'.args, OrderAt(call'.m))
       /\ call'.request.params = <<>>
       /\ call'.request.verb = (IF call'.m = "replaceOrder" THEN "PUT" ELSE "POST")
       /\ call'.m = "replaceOrder" =>
            call'.request.url = <<baseUrl["Orders"], "/orders/", Arg(call'.args, 1).s>>
       /\ call.stage # "idle" => (call'.args = call.args /\ call'.request = call.request)]_vars

\* replaceOrder has settled: its request was a PUT of the replacement order
C16_Witness ==
  /\ Settled
  /\ call.m = "replaceOrder"
  /\ call.request.verb = "PUT"
  /\ call.request.data = AnOrder
  /\ Arg(call.args, 2) = AnOrder

\* C17: every request a method of a class issues targets a URL that begins
\* with the base path of that class.
C17_RequestsUnderBasePath ==
  Started =>
    \A i \in DOMAIN call.sent :
      Head(call.sent[i].url) = baseUrl[ClassOf(call.m)]

\* the methods said to log a failure and pass it on
LoggingMethods == AccountsMethods \cup OrdersMethods \cup {"streamTickBars"}

\* the methods said to wrap a failure, each with the prefix of its message
WrapPrefix(m) ==
  CASE m = "getBars" -> "Error fetching bars: "
    [] m = "getCryptoSymbolNames" -> "Error fetching crypto symbol names: "
    [] m = "getSymbolDetails" -> "Error fetching symbol details: "
    [] m = "getOptionExpirations" -> "Error fetching option expirations: "
    [] m = "getOptionRiskReward" -> "Error analyzing option risk vs. reward: "
    [] m = "getOptionSpreadTypes" -> "Error fetching option spread types: "
    [] m = "getOptionStrikes" -> "Error fetching option strikes: "

WrappingMethods ==
  {"getBars", "getCryptoSymbolNames", "getSymbolDetails", "getOptionExpirations",
   "getOptionRiskReward", "getOptionSpreadTypes", "getOptionStrikes"}

\* C18: after a transport failure a method of Accounts or Orders, and
\* streamTickBars, has logged the error exactly once and rejected with that
\* very error; an async MarketData method has logged nothing and rejected with
\* a new Error whose message is its prefix followed by the message of the
\* original error.
C18_LogOrWrap ==
  (Settled /\ TransportFailed) =>
    /\ call.m \in LoggingMethods =>
         /\ Len(call.console) = 1
         /\ call.console[1].error = call.axios.value
         /\ call.promise = Rejected(call.axios.value)
    /\ call.m \in WrappingMethods =>
         /\ call.console = <<>>
         /\ call.promise.state = "rejected"
         /\ call.promise.value.t = "Error"
         /\ call.promise.value # call.axios.value
         /\ Get(call.promise.value, "message") =
              Str(WrapPrefix(call.m) \o Get(call.axios.value, "message").s)

\* getSymbolDetails has rejected with the wrapped error of a 500
C18_Witness ==
  /\ Settled
  /\ call.m = "getSymbolDetails"
  /\ StatusOf(call.axios.value) = Num("500")
  /\ call.console = <<>>
  /\ Get(call.promise.value, "message") =
       Str("Error fetching symbol details: Request failed with status code 500")

\* C19: getOptionExpirations sends strikePrice with the caller's value
\* whenever the caller gives a number, 0 included, sends no query parameter
\* when strikePrice is omitted or null, and on a 2xx answer resolves to the
\* Expirations of the body.
C19_StrikePriceSent ==
  (Started /\ call.m = "getOptionExpirations") =>
    LET strikePrice == Arg(call.args, 2)
    IN /\ strikePrice.t = "number" =>
            Serialize(call.request.params) = <<[k |-> "strikePrice", v |-> strikePrice.s]>>
       /\ strikePrice.t \in {"undefined", "null"} =>
            Serialize(call.request.params) = <<>>
       /\ (Settled /\ Answered2xx) =>
            call.promise = Fulfilled(Get(AnsweredBody, "Expirations"))

====
